---- MODULE Spec2Model ----
(***************************************************************************)
(* A model of pivotalclient.PivotalClient (src/pivotalclient/__init__.py): *)
(* one client object, the public operations called on it one at a time,    *)
(* and the HTTP exchanges each call makes.  The HTTP server is the         *)
(* environment: it answers every request with a status code and a JSON     *)
(* body of its choice, or the connection fails.  `requests` and            *)
(* `responses` are what a recording transport sees during the current     *)
(* call.                                                                   *)
(***************************************************************************)
EXTENDS Integers, Sequences, FiniteSets, TLC

VARIABLES
    account_id,        \* self.account_id
    project_id,        \* self.project_id
    api_root,          \* self.api_root
    op,                \* the public operation being executed ("none" before the first)
    pc,                \* where that operation stands
    http,              \* "idle" | "sent" (request on the wire) | "replied" (response arrived)
    requests,          \* the HTTP requests issued during the current call, in order
    responses,         \* the responses received during the current call, in order
    outcome,           \* what the call gave its caller: nothing yet, a value, an exception
    querystring,       \* _get_all: _querystring
    results,           \* _get_all / get_all_integration_stories / create_stories...: results
    integration_list,  \* get_all_integration_stories: integrations
    integrations,      \* create_stories_from_integration_stories: integrations (dict by id)
    external_stories,  \* create_stories_from_integration_stories: external_stories
    idx,               \* position of the running for loop
    templates,         \* <<desc_template, name_template>> of the current call
    stdout             \* lines printed during the current call

vars == <<account_id, project_id, api_root, op, pc, http, requests, responses, outcome,
          querystring, results, integration_list, integrations, external_stories,
          idx, templates, stdout>>

config == <<account_id, project_id, api_root>>

(***************************************************************************)
(* Bounds of the model.                                                    *)
(***************************************************************************)
\* the most requests one _get_all call issues in the model (the code has no cap)
MaxPages == 3

(***************************************************************************)
(* Python values.                                                          *)
(***************************************************************************)
None == "None"

\* bool(x) for the identifiers and templates of the model: None and '' are falsy
Truthy(x) == x \notin {None, ""}

\* {} and []
EmptyDict == <<>>

\* d.get(k, default)
Get(d, k, default) == IF k \in DOMAIN d THEN d[k] ELSE default

\* d[k] = v
SetItem(d, k, v) == [x \in (DOMAIN d) \cup {k} |-> IF x = k THEN v ELSE d[x]]

\* d.pop(k, None)
Pop(d, k) == [x \in (DOMAIN d) \ {k} |-> d[x]]

Raise(type, msg) == [kind |-> "raise", type |-> type, msg |-> msg]
Return(value) == [kind |-> "return", value |-> value]
Pending == [kind |-> "none"]

(***************************************************************************)
(* Construction: PivotalClient.__init__                                    *)
(***************************************************************************)
api_token == "token"
auth_headers == ("X-TrackerToken" :> api_token)

\* the account_id / project_id arguments: not given, empty, given
IdArgs == {None, "", "7"}
ApiRootArgs == {None, ""}

init_api_root(arg) ==
    IF ~Truthy(arg) THEN "https://www.pivotaltracker.com/services/v5" ELSE arg

api_accounts == api_root \o "/accounts"
api_account == api_accounts \o "/" \o account_id
api_account_memberships == api_account \o "/memberships"
api_projects == api_root \o "/projects"
api_project == api_projects \o "/" \o project_id
api_project_memberships == api_project \o "/memberships"
api_stories == api_project \o "/stories"
api_story(story_id) == api_project \o "/stories/" \o story_id
api_activity(story_id) == api_project \o "/stories/" \o story_id \o "/activity"
api_integrations == api_project \o "/integrations"
api_integration(integration_id) == api_integrations \o "/" \o integration_id
api_integration_stories(integration_id) == api_integrations \o "/" \o integration_id \o "/stories"
api_filter == [date_format |-> "millis", filter |-> None]

(***************************************************************************)
(* Transport: _get, _post, _put.  Each is one request and, once the        *)
(* response is there, the check of its status code.                        *)
(***************************************************************************)
\* requests.Response.__bool__ is Response.ok: no 4xx or 5xx status
ResponseOk(resp) == ~(400 <= resp.status_code /\ resp.status_code < 600)

_get_request(endpoint, qs, with_envelope) ==
    [method |-> "GET", endpoint |-> endpoint, headers |-> auth_headers,
     params |-> IF with_envelope THEN SetItem(qs, "envelope", "true") ELSE qs]

_post_request(endpoint, json) ==
    [method |-> "POST", endpoint |-> endpoint, headers |-> auth_headers, json |-> json]

_put_request(endpoint, json) ==
    [method |-> "PUT", endpoint |-> endpoint, headers |-> auth_headers, json |-> json]

\* _get without the check of the status code
_get_unchecked(endpoint, resp) ==
    IF resp.kind = "exception" THEN Raise(resp.type, endpoint) ELSE Return(resp.json)

_get(endpoint, resp) ==
    IF resp.kind = "exception" THEN Raise(resp.type, endpoint)
    ELSE IF ~ResponseOk(resp) \/ ~(200 <= resp.status_code /\ resp.status_code < 300)
         THEN Raise("ApiError", "GET " \o endpoint \o " " \o ToString(resp.status_code))
         ELSE Return(resp.json)

\* _post without the check of the status code
_post_unchecked(endpoint, resp) ==
    IF resp.kind = "exception" THEN Raise(resp.type, endpoint) ELSE Return(resp.json)

_post(endpoint, resp) ==
    IF resp.kind = "exception" THEN Raise(resp.type, endpoint)
    ELSE IF ~ResponseOk(resp) \/ ~(200 <= resp.status_code /\ resp.status_code < 300)
         THEN Raise("ApiError", "POST " \o endpoint \o " " \o ToString(resp.status_code))
         ELSE Return(resp.json)

\* _put with the upper end of the accepted range included
_put_accepting_300(endpoint, resp) ==
    IF resp.kind = "exception" THEN Raise(resp.type, endpoint)
    ELSE IF ~ResponseOk(resp) \/ ~(200 <= resp.status_code /\ resp.status_code <= 300)
         THEN Raise("ApiError", "PUT " \o endpoint \o " " \o ToString(resp.status_code))
         ELSE Return(resp.json)

_put(endpoint, resp) ==
    IF resp.kind = "exception" THEN Raise(resp.type, endpoint)
    ELSE IF ~ResponseOk(resp) \/ ~(200 <= resp.status_code /\ resp.status_code < 300)
         THEN Raise("ApiError", "PUT " \o endpoint \o " " \o ToString(resp.status_code))
         ELSE Return(resp.json)

\* the transport call that is waiting for the last response
Transport(req, resp) ==
    CASE req.method = "GET" -> _get(req.endpoint, resp)
      [] req.method = "POST" -> _post(req.endpoint, resp)
      [] req.method = "PUT" -> _put(req.endpoint, resp)

(***************************************************************************)
(* Precondition guards.  sys.getframe does not exist, so the name always   *)
(* comes from inspect.stack()[1][3]: the function that called the guard.   *)
(***************************************************************************)
\* the project guard testing the account id
_verify_project_id_exists_by_account(caller_name) ==
    IF ~Truthy(account_id)
    THEN Raise("ApiError",
               "Project ID not set on API connection and is required by " \o caller_name \o "().")
    ELSE Return(None)

_verify_project_id_exists(caller_name) ==
    IF ~Truthy(project_id)
    THEN Raise("ApiError",
               "Project ID not set on API connection and is required by " \o caller_name \o "().")
    ELSE Return(None)

_verify_account_id_exists(caller_name) ==
    IF ~Truthy(account_id)
    THEN Raise("ApiError",
               "Account ID not set on API connection and is required by " \o caller_name \o "().")
    ELSE Return(None)

(***************************************************************************)
(* The state after construction.                                           *)
(***************************************************************************)
Init ==
    /\ account_id \in IdArgs
    /\ project_id \in IdArgs
    /\ api_root \in {init_api_root(a) : a \in ApiRootArgs}
    /\ op = "none"
    /\ pc = "idle"
    /\ http = "idle"
    /\ requests = <<>>
    /\ responses = <<>>
    /\ outcome = Pending
    /\ querystring = EmptyDict
    /\ results = <<>>
    /\ integration_list = <<>>
    /\ integrations = EmptyDict
    /\ external_stories = <<>>
    /\ idx = 0
    /\ templates = <<None, None>>
    /\ stdout = <<>>

(***************************************************************************)
(* The server.  It answers a request with any status code of StatusCodes   *)
(* and a JSON body, or the connection fails.  Bodies are JSON, as the API  *)
(* has it; a non-2xx response carries the API's error object.              *)
(***************************************************************************)
StatusCodes == {199, 200, 299, 300, 404, 500}
ErrorBody == [kind |-> "error", error |-> "failed"]
ConnectionFailed == [kind |-> "exception", type |-> "ConnectionError"]

\* story resources, as the story endpoints return them
StoryBodies == {[id |-> "101", name |-> "Fix login"], [id |-> "102", name |-> "Ship it"]}

\* the data of one page of an enveloped list response
Pages == {<<>>, <<"r1">>, <<"r2", "r1">>}
\* the pagination object of an enveloped response: with and without limit
Paginations == {[limit |-> 50, offset |-> 0, total |-> 0], [offset |-> 0, total |-> 100]}
Envelopes ==
    {[data |-> d, pagination |-> p] : d \in Pages, p \in Paginations}
        \cup {[data |-> d] : d \in Pages}
        \cup {[pagination |-> p] : p \in Paginations}

\* integration resources; the second has no base_url
IntegrationRecords == {[id |-> "i1", base_url |-> "https://z.example.com"], [id |-> "i2"]}
IntegrationLists ==
    {<<>>} \cup {<<a>> : a \in IntegrationRecords}
           \cup {<<a, b>> : a \in IntegrationRecords, b \in IntegrationRecords}

\* external story resources: with every field the workflow touches, without
\* state and requested_by_id, without external_requester
esFull == [name |-> "Crash", external_id |-> "42", external_requester |-> "Bob",
           integration_id |-> "i1", state |-> "open", requested_by_id |-> "u7",
           description |-> "It crashes", story_type |-> "bug"]
esBare == [name |-> "Typo", external_id |-> "43", external_requester |-> "Ann",
           integration_id |-> "i2", story_type |-> "chore"]
esAnon == [name |-> "Slow", external_id |-> "44", integration_id |-> "i1",
           state |-> "new", requested_by_id |-> "u8"]
ExternalStoryLists == {<<>>, <<esAnon>>, <<esBare, esFull>>}

\* what the server may send as the body of a 2xx response to the request the
\* client is waiting on
Bodies(at) ==
    CASE at = "get_all" -> Envelopes
      [] at \in {"gais_integrations", "csfis_integrations"} -> IntegrationLists
      [] at = "gais_stories" -> ExternalStoryLists
      [] OTHER -> StoryBodies

\* the status codes the server answers with: every one of StatusCodes to a
\* call that is a single request; the loops, which repeat the same check per
\* request, see one 2xx code and every other code
StatusCodesAt(at) == IF at = "return_json" THEN StatusCodes ELSE StatusCodes \ {299}

Responses(at) ==
    {[kind |-> "response", status_code |-> s, json |-> b] :
        s \in {c \in StatusCodesAt(at) : 200 <= c /\ c < 300}, b \in Bodies(at)}
    \cup {[kind |-> "response", status_code |-> s, json |-> ErrorBody] :
        s \in {c \in StatusCodesAt(at) : ~(200 <= c /\ c < 300)}}
    \cup {ConnectionFailed}

ServerRespond ==
    /\ http = "sent"
    /\ \E resp \in Responses(pc) :
        responses' = Append(responses, resp)
    /\ http' = "replied"
    /\ UNCHANGED <<config, op, pc, requests, outcome, querystring, results,
                   integration_list, integrations, external_stories, idx,
                   templates, stdout>>

(***************************************************************************)
(* Steps shared by the operations.                                         *)
(***************************************************************************)
NoTemplate == [none |-> TRUE]

Locals(qs, res, il, ints, es, i) ==
    /\ querystring' = qs
    /\ results' = res
    /\ integration_list' = il
    /\ integrations' = ints
    /\ external_stories' = es
    /\ idx' = i

NoLocals == Locals(EmptyDict, <<>>, <<>>, EmptyDict, <<>>, 0)

\* a public operation is called: the previous call, if any, has returned
BeginCall(o, t) ==
    /\ pc \in {"idle", "done"}
    /\ op' = o
    /\ templates' = t
    /\ responses' = <<>>
    /\ stdout' = <<>>
    /\ UNCHANGED config

\* the call ends: it returns a value or raises
Finish(out, reqs) ==
    /\ pc' = "done"
    /\ http' = "idle"
    /\ outcome' = out
    /\ requests' = reqs
    /\ NoLocals

\* the call issues `req` and blocks until the response is there
Await(at, reqs, req) ==
    /\ pc' = at
    /\ http' = "sent"
    /\ outcome' = Pending
    /\ requests' = Append(reqs, req)

LastRequest == requests[Len(requests)]
LastResponse == responses[Len(responses)]

\* an operation that is a guard and one transport call whose result it returns
SimpleCall(o, guard, req) ==
    /\ BeginCall(o, <<NoTemplate, NoTemplate>>)
    /\ IF guard.kind = "raise"
       THEN Finish(guard, <<>>)
       ELSE Await("return_json", <<>>, req) /\ NoLocals

(***************************************************************************)
(* The operations that are one transport call.                             *)
(***************************************************************************)
StoryIds == {"101"}
IntegrationIds == {"i1"}
FieldUpdates == {[current_state |-> "started"]}
NewStories == {[name |-> "New story"]}

get_story(story_id) ==
    SimpleCall("get_story", _verify_project_id_exists("get_story"),
               _get_request(api_story(story_id), EmptyDict, FALSE))

get_story_activities(story_id) ==
    SimpleCall("get_story_activities", _verify_project_id_exists("get_story_activities"),
               _get_request(api_activity(story_id), EmptyDict, FALSE))

get_project_memberships ==
    SimpleCall("get_project_memberships",
               _verify_project_id_exists("get_project_memberships"),
               _get_request(api_project_memberships, EmptyDict, FALSE))

get_account_memberships ==
    SimpleCall("get_account_memberships",
               _verify_account_id_exists("get_account_memberships"),
               _get_request(api_account_memberships, EmptyDict, FALSE))

get_integrations ==
    SimpleCall("get_integrations", _verify_project_id_exists("get_integrations"),
               _get_request(api_integrations, EmptyDict, FALSE))

get_integration(integration_id) ==
    SimpleCall("get_integration", _verify_project_id_exists("get_integration"),
               _get_request(api_integration(integration_id), EmptyDict, FALSE))

\* the stories of an integration asked for with an envelope
get_integration_stories_request_enveloped(integration_id) ==
    _get_request(api_integration_stories(integration_id), [exclude_linked |-> "true"], TRUE)

get_integration_stories_request(integration_id) ==
    _get_request(api_integration_stories(integration_id), [exclude_linked |-> "true"], FALSE)

get_integration_stories(integration_id) ==
    SimpleCall("get_integration_stories",
               _verify_project_id_exists("get_integration_stories"),
               get_integration_stories_request(integration_id))

create_story(story_dict) ==
    SimpleCall("create_story", _verify_project_id_exists("create_story"),
               _post_request(api_stories, story_dict))

update_story(story_id, fields) ==
    SimpleCall("update_story", _verify_project_id_exists("update_story"),
               _put_request(api_story(story_id), fields))

\* the response to the one transport call is there: return its JSON, or raise
ReturnJson ==
    /\ pc = "return_json"
    /\ http = "replied"
    /\ Finish(Transport(LastRequest, LastResponse), requests)
    /\ UNCHANGED <<config, op, templates, responses, stdout>>

(***************************************************************************)
(* The paginated fetch: _get_all, and the two operations that use it.      *)
(***************************************************************************)
DEFAULT_PAGE_LIMIT == 1000

PivotalFilters == {"state:started"}
Labels == {"x"}

\* the end of the loop decided by the reported total
page_is_empty_by_total(response) ==
    Get(Get(response, "pagination", EmptyDict), "total", 1) = 0

\* len(response.get('data', [])) == 0
page_is_empty(response) == Len(Get(response, "data", <<>>)) = 0

\* the page put in front of the results
extend_prepending(list, data) == data \o list

\* results.extend(response.get('data'))
extend(list, data) == list \o data

\* the limit left as the client sent it
update_limit_ignoring_server(qs, response) == qs

\* the limit falling back to the one of the request just made
update_limit_keeping_previous(qs, response) ==
    SetItem(qs, "limit",
            Get(Get(response, "pagination", EmptyDict), "limit", qs["limit"]))

\* _querystring['limit'] = response.get('pagination', {}).get('limit', DEFAULT_PAGE_LIMIT)
update_limit(qs, response) ==
    SetItem(qs, "limit",
            Get(Get(response, "pagination", EmptyDict), "limit", DEFAULT_PAGE_LIMIT))

\* _querystring['offset'] += _querystring['limit']
advance_offset(qs) == SetItem(qs, "offset", qs["offset"] + qs["limit"])

\* _get_all up to its first request
_get_all_begin(endpoint, qs) ==
    LET _querystring == SetItem(SetItem(qs, "limit", DEFAULT_PAGE_LIMIT), "offset", 0)
    IN  /\ Await("get_all", <<>>, _get_request(endpoint, _querystring, TRUE))
        /\ Locals(_querystring, <<>>, <<>>, EmptyDict, <<>>, 0)

get_stories_by_filter(pivotal_filter) ==
    /\ BeginCall("get_stories_by_filter", <<NoTemplate, NoTemplate>>)
    /\ LET guard == _verify_project_id_exists("get_stories_by_filter")
           filt == SetItem(api_filter, "filter", pivotal_filter)
       IN  IF guard.kind = "raise"
           THEN Finish(guard, <<>>)
           ELSE _get_all_begin(api_stories, filt)

get_stories_by_label(label) ==
    /\ BeginCall("get_stories_by_label", <<NoTemplate, NoTemplate>>)
    /\ LET guard == _verify_project_id_exists("get_stories_by_label")
           filt == [filter |-> "label:\"" \o label \o "\""]
       IN  IF guard.kind = "raise"
           THEN Finish(guard, <<>>)
           ELSE _get_all_begin(api_stories, filt)

\* one turn of the while loop of _get_all, from the response of its request
\* to the next request or to the return
_get_all ==
    /\ pc = "get_all"
    /\ http = "replied"
    /\ LET got == _get(LastRequest.endpoint, LastResponse)
       IN  IF got.kind = "raise"
           THEN Finish(got, requests)
           ELSE IF page_is_empty(got.value)
           THEN Finish(Return(results), requests)
           ELSE /\ Len(requests) < MaxPages
                /\ LET _querystring == advance_offset(update_limit(querystring, got.value))
                   IN  /\ Await("get_all", requests,
                                _get_request(LastRequest.endpoint, _querystring, TRUE))
                       /\ Locals(_querystring, extend(results, got.value["data"]),
                                 <<>>, EmptyDict, <<>>, 0)
    /\ UNCHANGED <<config, op, templates, responses, stdout>>

(***************************************************************************)
(* Templates.  A str.format template is the sequence of its parts: literal *)
(* text and replacement fields {name} or {name[key]}, looked up in the     *)
(* context in order; the first missing key raises KeyError.                *)
(***************************************************************************)
Lit(text) == [lit |-> text]
Field(name, key) == [name |-> name, key |-> key]
Name(name) == [name |-> name]

TemplateGiven(template) == "parts" \in DOMAIN template /\ template.parts # <<>>

\* the value of one part
format_part(part, context) ==
    IF "lit" \in DOMAIN part THEN Return(part.lit)
    ELSE IF part.name \notin DOMAIN context THEN Raise("KeyError", part.name)
    ELSE IF "key" \notin DOMAIN part THEN Return(context[part.name])
    ELSE IF part.key \notin DOMAIN context[part.name] THEN Raise("KeyError", part.key)
    ELSE Return(context[part.name][part.key])

RECURSIVE format(_, _)
format(parts, context) ==
    IF parts = <<>> THEN Return("")
    ELSE LET first == format_part(Head(parts), context)
             rest == format(Tail(parts), context)
         IN  IF first.kind = "raise" THEN first
             ELSE IF rest.kind = "raise" THEN rest
             ELSE Return(first.value \o rest.value)

_desc_for_external_story(context, template) ==
    LET tmpl == <<Lit("[External Story #"), Field("external_story", "external_id"), Lit("]"),
                  Lit("("), Field("integration", "base_url"), Lit("/tickets/"),
                  Field("external_story", "external_id"), Lit(")"),
                  Lit("filed by "), Field("external_story", "external_requester"), Lit(".")>>
    IN  format(IF TemplateGiven(template) THEN template.parts ELSE tmpl, context)

_name_for_external_story(context, template) ==
    LET tmpl == <<Lit("External Story: "), Field("external_story", "name")>>
    IN  format(IF TemplateGiven(template) THEN template.parts ELSE tmpl, context)

\* the templates a caller passes: none, its own, an empty one
CustomDesc == [parts |-> <<Field("external_story", "name"), Name("nl"), Lit("from "),
                           Field("integration", "id")>>]
CustomName == [parts |-> <<Lit("Ticket "), Field("external_story", "external_id")>>]
EmptyTemplate == [parts |-> <<>>]
TemplateArgs == {<<NoTemplate, NoTemplate>>, <<CustomDesc, CustomName>>,
                 <<CustomDesc, EmptyTemplate>>}

(***************************************************************************)
(* get_all_integration_stories and create_stories_from_integration_stories *)
(***************************************************************************)
\* {i.get('id'): i for i in list}: a later integration replaces an earlier one
dict_by_id(list) ==
    LET ids == {Get(list[n], "id", None) : n \in 1..Len(list)}
        last(k) == CHOOSE n \in 1..Len(list) :
                       /\ Get(list[n], "id", None) = k
                       /\ \A m \in (n + 1)..Len(list) : Get(list[m], "id", None) # k
    IN  [k \in ids |-> list[last(k)]]

\* only state removed
remove_unwanted_state_only(wrapped_es) == Pop(wrapped_es, "state")

\* wrapped_es.pop('state', None); wrapped_es.pop('external_requester', None)
remove_unwanted(wrapped_es) == Pop(Pop(wrapped_es, "state"), "external_requester")

\* lines 275-294: the story to create from the external story es, the line
\* printed on the way, or the KeyError of a lookup or of a template
transform(es, ints, desc_template, name_template) ==
    IF "integration_id" \notin DOMAIN es THEN Raise("KeyError", "integration_id")
    ELSE IF es["integration_id"] \notin DOMAIN ints THEN Raise("KeyError", es["integration_id"])
    ELSE
    LET context == [external_story |-> es, integration |-> ints[es["integration_id"]],
                    nl |-> "\n"]
        story_name == _name_for_external_story(context, name_template)
        story_desc == _desc_for_external_story(context, desc_template)
    IN  IF story_name.kind = "raise" THEN story_name
        ELSE IF story_desc.kind = "raise" THEN story_desc
        ELSE
        LET named == SetItem(SetItem(es, "name", story_name.value),
                             "description", story_desc.value)
            trimmed == remove_unwanted(named)
            printed == IF "requested_by_id" \notin DOMAIN trimmed
                       THEN <<"Missing requested_by_id on " \o story_name.value \o " ["
                                  \o Get(es, "external_id", None) \o "]">>
                       ELSE <<>>
        IN  [kind |-> "return", value |-> Pop(trimmed, "requested_by_id"),
             printed |-> printed]

\* the for loop of create_stories_from_integration_stories from story n on:
\* up to the POST of story n, a KeyError, or the return after the last story
create_from(n, stories, ints, pairs, reqs) ==
    IF n > Len(stories)
    THEN /\ Finish(Return(pairs), reqs)
         /\ stdout' = stdout
    ELSE LET wrapped_es == transform(stories[n], ints, templates[1], templates[2])
         IN  IF wrapped_es.kind = "raise"
             THEN /\ Finish(wrapped_es, reqs)
                  /\ stdout' = stdout
             ELSE /\ stdout' = stdout \o wrapped_es.printed
                  /\ LET guard == _verify_project_id_exists("create_story")
                     IN  IF guard.kind = "raise"
                         THEN Finish(guard, reqs)
                         ELSE /\ Await("csfis_post", reqs,
                                       _post_request(api_stories, wrapped_es.value))
                              /\ Locals(EmptyDict, pairs, <<>>, ints, stories, n)

\* get_all_integration_stories returns `stories`: to the caller of the public
\* operation, or into line 272 of create_stories_from_integration_stories
gais_return(stories, reqs) ==
    IF op = "get_all_integration_stories"
    THEN Finish(Return(stories), reqs)
    ELSE LET guard == _verify_project_id_exists("get_integrations")
         IN  IF guard.kind = "raise"
             THEN Finish(guard, reqs)
             ELSE /\ Await("csfis_integrations", reqs,
                           _get_request(api_integrations, EmptyDict, FALSE))
                  /\ Locals(EmptyDict, <<>>, <<>>, EmptyDict, stories, 0)

\* the for loop of get_all_integration_stories from integration n on
gais_from(n, list, stories, reqs) ==
    IF n > Len(list)
    THEN gais_return(stories, reqs)
    ELSE LET guard == _verify_project_id_exists("get_integration_stories")
         IN  IF guard.kind = "raise"
             THEN Finish(guard, reqs)
             ELSE /\ Await("gais_stories", reqs,
                           get_integration_stories_request(Get(list[n], "id", None)))
                  /\ Locals(EmptyDict, stories, list, EmptyDict, <<>>, n)

\* get_all_integration_stories up to its first request
gais_begin ==
    LET guard == _verify_project_id_exists("get_integrations")
    IN  IF guard.kind = "raise"
        THEN Finish(guard, <<>>)
        ELSE /\ Await("gais_integrations", <<>>,
                      _get_request(api_integrations, EmptyDict, FALSE))
             /\ NoLocals

get_all_integration_stories ==
    /\ BeginCall("get_all_integration_stories", <<NoTemplate, NoTemplate>>)
    /\ gais_begin

create_stories_from_integration_stories(desc_template, name_template) ==
    /\ BeginCall("create_stories_from_integration_stories", <<desc_template, name_template>>)
    /\ LET guard == _verify_project_id_exists("create_stories_from_integration_stories")
       IN  IF guard.kind = "raise"
           THEN Finish(guard, <<>>)
           ELSE gais_begin

\* get_all_integration_stories: the integrations are there
gais_integrations ==
    /\ pc = "gais_integrations"
    /\ http = "replied"
    /\ LET got == _get(LastRequest.endpoint, LastResponse)
       IN  IF got.kind = "raise"
           THEN Finish(got, requests)
           ELSE gais_from(1, got.value, <<>>, requests)
    /\ UNCHANGED <<config, op, templates, responses, stdout>>

\* get_all_integration_stories: the external stories of integration idx are there
gais_stories ==
    /\ pc = "gais_stories"
    /\ http = "replied"
    /\ LET got == _get(LastRequest.endpoint, LastResponse)
       IN  IF got.kind = "raise"
           THEN Finish(got, requests)
           ELSE gais_from(idx + 1, integration_list, extend(results, got.value), requests)
    /\ UNCHANGED <<config, op, templates, responses, stdout>>

\* create_stories_from_integration_stories: the integrations are there (line 272)
csfis_integrations ==
    /\ pc = "csfis_integrations"
    /\ http = "replied"
    /\ LET got == _get(LastRequest.endpoint, LastResponse)
       IN  IF got.kind = "raise"
           THEN Finish(got, requests) /\ stdout' = stdout
           ELSE create_from(1, external_stories, dict_by_id(got.value), <<>>, requests)
    /\ UNCHANGED <<config, op, templates, responses>>

\* create_stories_from_integration_stories: story idx is created (line 296)
csfis_post ==
    /\ pc = "csfis_post"
    /\ http = "replied"
    /\ LET got == _post(LastRequest.endpoint, LastResponse)
       IN  IF got.kind = "raise"
           THEN Finish(got, requests) /\ stdout' = stdout
           ELSE create_from(idx + 1, external_stories, integrations,
                            Append(results, <<external_stories[idx], got.value>>),
                            requests)
    /\ UNCHANGED <<config, op, templates, responses>>

Next ==
    \/ \E story_id \in StoryIds : get_story(story_id)
    \/ \E story_id \in StoryIds : get_story_activities(story_id)
    \/ get_project_memberships
    \/ get_account_memberships
    \/ get_integrations
    \/ \E integration_id \in IntegrationIds : get_integration(integration_id)
    \/ \E integration_id \in IntegrationIds : get_integration_stories(integration_id)
    \/ \E story_dict \in NewStories : create_story(story_dict)
    \/ \E story_id \in StoryIds, fields \in FieldUpdates : update_story(story_id, fields)
    \/ \E pivotal_filter \in PivotalFilters : get_stories_by_filter(pivotal_filter)
    \/ \E label \in Labels : get_stories_by_label(label)
    \/ ServerRespond
    \/ ReturnJson
    \/ _get_all
    \/ get_all_integration_stories
    \/ \E t \in TemplateArgs : create_stories_from_integration_stories(t[1], t[2])
    \/ gais_integrations
    \/ gais_stories
    \/ csfis_integrations
    \/ csfis_post

Spec == Init /\ [][Next]_vars

\* the loops run to their end as long as responses arrive: the client is
\* single-threaded and blocks on each request, so a response that is there is
\* handled; nothing is assumed of the server
FairSpec == Spec /\ WF_vars(_get_all)

(***************************************************************************)
(* What the properties below read off a recorded exchange.                 *)
(***************************************************************************)
PublicOperations ==
    {"get_story", "get_stories_by_filter", "get_stories_by_label", "get_story_activities",
     "get_project_memberships", "get_integrations", "get_integration",
     "get_integration_stories", "get_all_integration_stories", "create_story",
     "update_story", "create_stories_from_integration_stories", "get_account_memberships"}

GetAllOperations == {"get_stories_by_filter", "get_stories_by_label"}
SingleCallOperations ==
    PublicOperations \ (GetAllOperations \cup
        {"get_all_integration_stories", "create_stories_from_integration_stories"})

\* the identifier the operation needs
RequiredId(o) == IF o = "get_account_memberships" THEN account_id ELSE project_id

ConfigurationErrors ==
    {Raise("ApiError", "Project ID not set on API connection and is required by " \o c \o "().")
        : c \in PublicOperations}
    \cup {Raise("ApiError",
                "Account ID not set on API connection and is required by " \o c \o "().")
        : c \in PublicOperations}

\* a response with a status code in [200, 300)
Accepted(resp) ==
    resp.kind = "response" /\ 200 <= resp.status_code /\ resp.status_code < 300

\* the records of a page
Data(resp) == Get(resp.json, "data", <<>>)

\* the pagination.limit the page reports, if it does
ReportsLimit(resp) ==
    /\ "pagination" \in DOMAIN resp.json
    /\ "limit" \in DOMAIN resp.json["pagination"]

\* the data of the first n pages, one after the other
RECURSIVE ConcatData(_)
ConcatData(n) == IF n = 0 THEN <<>> ELSE ConcatData(n - 1) \o Data(responses[n])

\* a step in which the client handles the response that arrived
Handled == http = "replied" /\ http' # "replied"

(***************************************************************************)
(* C1.  An operation whose required identifier (project_id, or account_id  *)
(* for get_account_memberships) was not configured fails with the          *)
(* configuration error and issues no HTTP request during the call.         *)
(***************************************************************************)
C1_MissingIdFailsWithoutRequest ==
    (op \in PublicOperations /\ RequiredId(op) = None) =>
        /\ pc = "done"
        /\ outcome \in ConfigurationErrors
        /\ requests = <<>>
        /\ responses = <<>>
        /\ http = "idle"

C1_Witness ==
    /\ op = "get_all_integration_stories"
    /\ project_id = None
    /\ account_id # None
    /\ pc = "done"
    /\ outcome.kind = "raise"
    /\ requests = <<>>

(***************************************************************************)
(* C2.  When every page fetch of a _get_all call succeeds and the pages    *)
(* 1..N-1 are non-empty and page N is empty, the call returns the data of  *)
(* pages 1..N-1 concatenated in arrival order.                             *)
(***************************************************************************)
C2_ReturnsConcatenationOfPages ==
    LET N == Len(responses)
    IN  ( /\ op \in GetAllOperations
          /\ pc = "done"
          /\ N >= 1
          /\ \A k \in 1..N : Accepted(responses[k])
          /\ \A k \in 1..(N - 1) : Len(Data(responses[k])) > 0
          /\ Len(Data(responses[N])) = 0 )
        => outcome = Return(ConcatData(N - 1))

C2_Witness ==
    /\ op \in GetAllOperations
    /\ pc = "done"
    /\ Len(responses) = 3
    /\ outcome = Return(<<"r1", "r2", "r1">>)

(***************************************************************************)
(* C3.  The first request of _get_all has limit=1000 and offset=0, and the *)
(* offset of request k+1 is the offset of request k plus the               *)
(* pagination.limit the server reported in response k.                     *)
(***************************************************************************)
C3_OffsetAdvancesByServerLimit ==
    (op \in GetAllOperations /\ Len(requests) >= 1) =>
        /\ requests[1].params["limit"] = 1000
        /\ requests[1].params["offset"] = 0
        /\ \A k \in 1..(Len(requests) - 1) :
              ReportsLimit(responses[k]) =>
                  requests[k + 1].params["offset"] =
                      requests[k].params["offset"] + responses[k].json["pagination"]["limit"]

C3_Witness ==
    /\ op \in GetAllOperations
    /\ Len(requests) >= 2
    /\ requests[1].params["limit"] = 1000
    /\ ReportsLimit(responses[1])
    /\ responses[1].json["pagination"]["limit"] = 50
    /\ requests[2].params["offset"] = 50

(***************************************************************************)
(* C4.  If the k-th page fetch of a _get_all call fails (a status code     *)
(* outside 2xx, or the transport fails), no further request is issued and  *)
(* the call raises: it never returns a sequence, whatever was accumulated. *)
(***************************************************************************)
C4_FailedPageAbortsWithoutResult ==
    op \in GetAllOperations =>
        \A k \in 1..Len(responses) :
            ~Accepted(responses[k]) =>
                /\ Len(requests) = k
                /\ Len(responses) = k
                /\ outcome.kind # "return"
                /\ pc = "done" => outcome.kind = "raise"
                /\ http = "idle" => pc = "done"

C4_Witness ==
    /\ op \in GetAllOperations
    /\ pc = "done"
    /\ Len(responses) = 3
    /\ Len(Data(responses[1])) + Len(Data(responses[2])) = 3
    /\ ~Accepted(responses[3])
    /\ outcome.kind = "raise"

(***************************************************************************)
(* C5.  A transport call issues one request and never retries.  When its   *)
(* response is handled: a status code outside [200, 300) makes the call    *)
(* raise ApiError with the method, the endpoint and the status code, and   *)
(* no request follows; a status code inside returns the parsed JSON body.  *)
(***************************************************************************)
C5_TransportAcceptsExactly2xx ==
    [][ Handled =>
          LET req == LastRequest
              resp == LastResponse
          IN  /\ (op \in SingleCallOperations) => Len(requests) = 1
              /\ (resp.kind = "response" /\ ~Accepted(resp)) =>
                    /\ pc' = "done"
                    /\ outcome' = Raise("ApiError",
                                        req.method \o " " \o req.endpoint \o " "
                                            \o ToString(resp.status_code))
                    /\ requests' = requests
              /\ Accepted(resp) =>
                    /\ ~(outcome'.kind = "raise" /\ outcome'.type = "ApiError")
                    /\ (op \in SingleCallOperations) =>
                          /\ outcome' = Return(resp.json)
                          /\ requests' = requests
      ]_vars

C5_Witness ==
    /\ op = "update_story"
    /\ pc = "done"
    /\ Len(requests) = 1
    /\ LastResponse.kind = "response"
    /\ LastResponse.status_code = 300
    /\ outcome = Raise("ApiError", "PUT " \o api_story("101") \o " 300")

(***************************************************************************)
(* What the properties of the story-creation workflow read off.            *)
(***************************************************************************)
CreateStories == "create_stories_from_integration_stories"
UnwantedFields == {"state", "external_requester", "requested_by_id"}

\* the bodies of responses a..b, one after the other
RECURSIVE ConcatJson(_, _)
ConcatJson(a, b) == IF b < a THEN <<>> ELSE ConcatJson(a, b - 1) \o responses[b].json

\* how many of the first n external stories have no requested_by_id
WithoutRequestedBy(n) ==
    Cardinality({j \in 1..n : "requested_by_id" \notin DOMAIN external_stories[j]})

(***************************************************************************)
(* C6, as claimed.  The payload POSTed for an external story has no state, *)
(* external_requester or requested_by_id key, a line is printed exactly    *)
(* for the stories without requested_by_id, and every other field of the   *)
(* original record is in the payload with its original value.              *)
(***************************************************************************)
C6_EveryOtherFieldKeepsItsValue ==
    pc = "csfis_post" =>
        LET es == external_stories[idx]
            payload == LastRequest.json
        IN  /\ DOMAIN payload \cap UnwantedFields = {}
            /\ Len(stdout) = WithoutRequestedBy(idx)
            /\ \A f \in DOMAIN es \ UnwantedFields :
                  f \in DOMAIN payload /\ payload[f] = es[f]

(***************************************************************************)
(* C6, amended.  As above, but name and description are not kept: the      *)
(* payload always has both, set to the rendered templates (without a name  *)
(* template the name is "External Story: " and the original name); every   *)
(* field other than these two and the three removed keeps its value.       *)
(***************************************************************************)
C6_OtherFieldsKeptNameAndDescriptionRendered ==
    pc = "csfis_post" =>
        LET es == external_stories[idx]
            payload == LastRequest.json
        IN  /\ DOMAIN payload \cap UnwantedFields = {}
            /\ Len(stdout) = WithoutRequestedBy(idx)
            /\ DOMAIN payload =
                  (DOMAIN es \ UnwantedFields) \cup {"name", "description"}
            /\ \A f \in DOMAIN es \ (UnwantedFields \cup {"name", "description"}) :
                  payload[f] = es[f]
            /\ ~TemplateGiven(templates[2]) =>
                  payload["name"] = "External Story: " \o es["name"]
            /\ ~TemplateGiven(templates[1]) =>
                  payload["description"] =
                      "[External Story #" \o es["external_id"] \o "]("
                          \o integrations[es["integration_id"]]["base_url"] \o "/tickets/"
                          \o es["external_id"] \o ")filed by "
                          \o es["external_requester"] \o "."

C6_Witness ==
    /\ pc = "csfis_post"
    /\ external_stories[idx] = esBare
    /\ stdout = <<"Missing requested_by_id on External Story: Typo [43]">>
    /\ LastRequest.json["name"] = "External Story: Typo"
    /\ LastRequest.json["story_type"] = "chore"

(***************************************************************************)
(* C7, as claimed.  When a non-empty page reports no pagination.limit, the *)
(* next request keeps the limit of the request just made and its offset    *)
(* advances by that limit.                                                 *)
(***************************************************************************)
C7_FallsBackToPreviousLimit ==
    op \in GetAllOperations =>
        \A k \in 1..(Len(requests) - 1) :
            ~ReportsLimit(responses[k]) =>
                /\ requests[k + 1].params["limit"] = requests[k].params["limit"]
                /\ requests[k + 1].params["offset"] =
                      requests[k].params["offset"] + requests[k].params["limit"]

(***************************************************************************)
(* C7, amended.  When a non-empty page reports no pagination.limit, the    *)
(* next request has limit 1000 (DEFAULT_PAGE_LIMIT), whatever the limit of *)
(* the request just made, and its offset advances by 1000.                 *)
(***************************************************************************)
C7_FallsBackToDefaultLimit ==
    op \in GetAllOperations =>
        \A k \in 1..(Len(requests) - 1) :
            ~ReportsLimit(responses[k]) =>
                /\ requests[k + 1].params["limit"] = 1000
                /\ requests[k + 1].params["offset"] = requests[k].params["offset"] + 1000

C7_Witness ==
    /\ op \in GetAllOperations
    /\ Len(requests) = 3
    /\ requests[2].params["limit"] = 50
    /\ requests[2].params["offset"] = 50
    /\ ~ReportsLimit(responses[2])
    /\ requests[3].params["limit"] = 1000
    /\ requests[3].params["offset"] = 1050

(***************************************************************************)
(* C8, as claimed.  The external stories of each integration are fetched   *)
(* through the paginated loop: with exclude_linked=true, envelope=true,    *)
(* limit and offset, the request repeated after a non-empty page.          *)
(***************************************************************************)
C8_StoriesFetchedThroughPaginator ==
    pc = "gais_stories" =>
        LET params == LastRequest.params
        IN  /\ Get(params, "exclude_linked", None) = "true"
            /\ Get(params, "envelope", None) = "true"
            /\ "limit" \in DOMAIN params
            /\ "offset" \in DOMAIN params

(***************************************************************************)
(* C8, amended.  The external stories of each integration are fetched by   *)
(* one GET of its stories endpoint whose only parameter is                 *)
(* exclude_linked=true (no envelope, limit or offset); the body of that    *)
(* one response is taken as all of the integration's stories, and the next *)
(* request is for the next integration.                                    *)
(***************************************************************************)
C8_StoriesFetchedByOneRequestEach ==
    pc = "gais_stories" =>
        /\ integration_list = responses[1].json
        /\ idx \in 1..Len(integration_list)
        /\ Len(requests) = 1 + idx
        /\ LastRequest =
              [method |-> "GET",
               endpoint |-> api_integrations \o "/"
                                \o Get(integration_list[idx], "id", None) \o "/stories",
               headers |-> auth_headers,
               params |-> [exclude_linked |-> "true"]]
        /\ results = ConcatJson(2, idx)

C8_Witness ==
    /\ op = CreateStories
    /\ pc = "gais_stories"
    /\ idx = 2
    /\ http = "sent"
    /\ results = <<esBare, esFull>>

(***************************************************************************)
(* C9.  _get_all ends normally exactly on an accepted page with empty or   *)
(* missing data, whatever pagination reports, and issues no request after  *)
(* it; after a non-empty page it always issues the next request; a page    *)
(* that is empty or failed is eventually followed by the end of the call.  *)
(***************************************************************************)
C9_TerminationIsDataDriven ==
    /\ [](( op \in GetAllOperations /\ pc = "done" /\ outcome.kind = "return" ) =>
            /\ Len(requests) = Len(responses)
            /\ Accepted(LastResponse)
            /\ Len(Data(LastResponse)) = 0
            /\ \A k \in 1..(Len(responses) - 1) : Len(Data(responses[k])) > 0)
    /\ [][ ( pc = "get_all" /\ Handled /\ Accepted(LastResponse) ) =>
              IF Len(Data(LastResponse)) = 0
              THEN /\ pc' = "done"
                   /\ outcome' = Return(results)
                   /\ requests' = requests
              ELSE /\ pc' = "get_all"
                   /\ outcome' = Pending
                   /\ Len(requests') = Len(requests) + 1
         ]_vars
    /\ ( ( /\ pc = "get_all"
           /\ http = "replied"
           /\ (~Accepted(LastResponse) \/ Len(Data(LastResponse)) = 0) )
         ~> pc = "done" )

C9_Witness ==
    /\ op \in GetAllOperations
    /\ pc = "done"
    /\ outcome.kind = "return"
    /\ Len(responses) = 3
    /\ Get(Get(responses[1].json, "pagination", EmptyDict), "total", 1) = 0
    /\ Len(Data(responses[1])) > 0
    /\ Get(Get(responses[3].json, "pagination", EmptyDict), "total", 1) = 100

(***************************************************************************)
(* C10.  create_stories_from_integration_stories POSTs the external        *)
(* stories one at a time in enumeration order; a failed exchange is the    *)
(* last one of the call, which then raises and returns no pairs; when all  *)
(* succeed the result is one (original, created) pair per external story,  *)
(* in order, the original as it was fetched.                               *)
(***************************************************************************)
C10_SequentialAllOrNothing ==
    op = CreateStories =>
        /\ \A k \in 1..Len(responses) :
              ~Accepted(responses[k]) =>
                  /\ Len(requests) = k
                  /\ Len(responses) = k
                  /\ outcome.kind # "return"
                  /\ pc = "done" => outcome.kind = "raise"
        /\ pc = "csfis_post" =>
              LET n == Len(responses[1].json)
              IN  /\ external_stories = ConcatJson(2, n + 1)
                  /\ Len(requests) = n + 2 + idx
                  /\ \A j \in 1..idx :
                        /\ requests[n + 2 + j].method = "POST"
                        /\ requests[n + 2 + j].json =
                              transform(external_stories[j], integrations,
                                        templates[1], templates[2]).value
                  /\ results = [j \in 1..(idx - 1) |->
                                   <<external_stories[j], responses[n + 2 + j].json>>]
        /\ (pc = "done" /\ outcome.kind = "return") =>
              LET n == Len(responses[1].json)
                  stories == ConcatJson(2, n + 1)
              IN  /\ Len(responses) = n + 2 + Len(stories)
                  /\ Len(requests) = Len(responses)
                  /\ outcome.value = [j \in 1..Len(stories) |->
                                         <<stories[j], responses[n + 2 + j].json>>]

C10_Witness ==
    /\ op = CreateStories
    /\ pc = "done"
    /\ outcome.kind = "raise"
    /\ Len(requests) >= 5
    /\ requests[Len(requests) - 1].method = "POST"
    /\ LastRequest.method = "POST"
    /\ Accepted(responses[Len(responses) - 1])
    /\ ~Accepted(LastResponse)

\* the other case of C10: every exchange succeeded and two pairs are returned
C10_AllCreated ==
    /\ op = CreateStories
    /\ pc = "done"
    /\ outcome.kind = "return"
    /\ Len(outcome.value) = 2
    /\ outcome.value[1][1] = esBare
    /\ outcome.value[2][1] = esFull

====
